---- MODULE Spec2Model ----
(***************************************************************************)
(* Model of the request execution engine of aiospotify                     *)
(* (src/aiospotify/http.py): HTTPClient session lifecycle, credential      *)
(* resolution and the retry loop of HTTPClient.request.                    *)
(*                                                                         *)
(* Every await of the code is a suspension point; one action runs the code *)
(* from one suspension point to the next.                                  *)
(***************************************************************************)
EXTENDS Integers, Sequences, FiniteSets, TLC

\* ------------------------------------------------------------------ bounds
\* Longest string value of a Route placeholder, in characters.
MaxValueLen == 2
\* Lifetime, in seconds, of a freshly issued access token.
TokenLifetime == 2
\* Largest Retry-After value (seconds) the transport answers with.
MaxRetryAfter == 2
\* Number of aiohttp.ClientSession objects that can be allocated.
MaxSessions == 2
\* Number of successful refreshes of one credential object.
MaxGen == 1
\* Number of consecutive close() calls that are followed.
MaxCloses == 2

\* ------------------------------------------------------- program constants
\* for tries in range(3)
MaxTries == 3
\* if tries < 4 and error.errno in (54, 10054)
OSRetryLimit == 4

\* ------------------------------------------------------------ input alphabets
Calls == {"c1", "c2"}
AppCreds == {"app1", "app2"}
CredIds == {"user"} \cup AppCreds

Statuses == {200, 204, 404, 413, 429, 500, 503}
\* Shapes of the decoded body (utils.json_or_text): a JSON object with a
\* non-empty "error" value, a JSON object whose "error" value is falsy
\* ({} or ""), a JSON object without "error", and raw text.
Bodies == {"dict_error", "dict_empty_error", "dict_no_error", "text"}
\* Retry-After header of a response, in seconds; -1 stands for a response
\* without that header.
NoRetryAfter == 0 - 1
RetryAfters == (1..MaxRetryAfter) \cup {NoRetryAfter}
\* errno values of OSError: 54 ECONNRESET (BSD/macOS), 10054 WSAECONNRESET,
\* 104 ECONNRESET (Linux).
Errnos == {54, 10054, 104}
\* Outcome of a credential operation (from_client_secret, refresh): success,
\* or the exception it raises.
AuthFailures == {"AuthError", "ClientOSError"}
AuthResults == {"ok"} \cup AuthFailures

VARIABLES
    session,             \* HTTPClient._session: 0 is None, else a session id
    sessions,            \* session id -> "unused" | "open" | "closed"
    client_credentials,  \* HTTPClient._client_credentials: "none" or a credential id
    creds,               \* credential id -> [ttl, gen]: seconds left, token generation
    call,                \* per call of HTTPClient.request: its local state
    closer,              \* HTTPClient.close: "idle" or "closing" (awaiting session.close())
    closes,              \* results of the close() calls made since the last request started
    other,               \* a second HTTPClient instance: its _session and _client_credentials
    endpoint,            \* the endpoint method last called: its name, its checked argument
    route                \* a Route under construction: its arguments, then url or exception

vars == <<session, sessions, client_credentials, creds, call, closer, closes, other, endpoint,
          route>>

\* ------------------------------------------------------------------ helpers
NoToken == [cred |-> "none", gen |-> 0]
NoOutcome == [kind |-> "none", exc |-> "none", status |-> 0, data |-> "none"]

IdleCall ==
    [pc |-> "idle", credentials |-> "none", eff |-> "none", token |-> NoToken,
     tries |-> 0, exchanges |-> 0, sleeps |-> <<>>, hist |-> <<>>,
     response |-> 0, response_data |-> "unbound", outcome |-> NoOutcome,
     refreshes |-> 0, created |-> 0, authfail |-> "none"]

\* Python truthiness / dict protocol of the decoded body.
IsDict(b) == b \in {"dict_error", "dict_empty_error", "dict_no_error"}
HasErrorKey(b) == b \in {"dict_error", "dict_empty_error"}
\* response_data.get("error"): the payload, a falsy value, or None.
GetError(b) ==
    IF b = "dict_error" THEN "payload"
    ELSE IF b = "dict_empty_error" THEN "empty"
    ELSE "None"
Truthy(v) == v = "payload"

\* values.EXCEPTION_MAPPING: status -> exception kind.
EXCEPTION_MAPPING ==
    [s \in {400, 401, 403, 404, 413, 429, 500, 502, 503} |->
        CASE s = 400 -> "BadRequest"
          [] s = 401 -> "Unauthorized"
          [] s = 403 -> "Forbidden"
          [] s = 404 -> "NotFound"
          [] s = 413 -> "RequestEntityTooLarge"
          [] s = 429 -> "TooManyRequests"
          [] OTHER   -> "ServerError"]

Last(seq) == seq[Len(seq)]

\* Variant: only 200 counts as success.
IsSuccessOnly200(st) == st = 200
\* if 200 <= response.status < 300
IsSuccess(st) == 200 <= st /\ st < 300
\* Variant: the 413 special case is missing.
IsTooLargeNever(st) == FALSE
\* if response.status == 413
IsTooLarge(st) == st = 413
\* if response.status in {500, 502, 503}
IsServerError(st) == st \in {500, 502, 503}
\* Variant: the errno test is missing.
IsRecoverableAnyErrno(tries, errno) == tries < OSRetryLimit
\* if tries < 4 and error.errno in (54, 10054)
IsRecoverable(tries, errno) == tries < OSRetryLimit /\ errno \in {54, 10054}
\* Variant: the rate-limit wait ignores the header.
RateLimitDelayFixed(ra) == 1
\* retry_after = float(response.headers["Retry-After"])
RateLimitDelay(ra) == ra

\* Credentials.is_expired()
is_expired(cr, k) == cr[k].ttl = 0

\* Variant: the session is reused although it is closed.
HasLiveSessionIgnoringClosed(s, ss) == s # 0
\* if self._session and not self._session.closed
HasLiveSession(s, ss) == s # 0 /\ ss[s] = "open"
\* Variant: close() does not test for a missing session.
NothingToCloseUnlessClosed(s, ss) == s # 0 /\ ss[s] # "open"
\* if not self._session or self._session.closed
NothingToClose(s, ss) == s = 0 \/ ss[s] # "open"
\* Variant: the fallback credential is created by every call.
NeedsCreationAlways(cc) == TRUE
\* if not self._client_credentials
NeedsCreation(cc) == cc = "none"

\* Variant: the fallback credential is created only for a call that brings
\* no credential of its own.
CreatesFallbackOnlyWithoutCaller(credentials, cc) == credentials = "none" /\ NeedsCreation(cc)
\* _get_credentials tests self._client_credentials before it looks at the
\* caller's credential (lines 121-128).
CreatesFallback(credentials, cc) == NeedsCreation(cc)
\* Variant: the fallback credential is preferred to the caller's.
EffectiveCredentialsFallbackFirst(credentials, cc) == cc
\* _credentials = credentials or self._client_credentials
EffectiveCredentials(credentials, cc) == IF credentials # "none" THEN credentials ELSE cc
\* Variant: an expired credential is used as it is.
ShouldRefreshNever(cr, k) == FALSE
\* if _credentials.is_expired()
ShouldRefresh(cr, k) == is_expired(cr, k)

\* d seconds pass: every credential gets d seconds closer to expiry.
Elapse(cr, d) ==
    [k \in CredIds |-> [cr[k] EXCEPT !.ttl = IF cr[k].ttl > d THEN cr[k].ttl - d ELSE 0]]

Return(r, st, body) ==
    [r EXCEPT !.pc = "done",
              !.outcome = [kind |-> "return", exc |-> "none", status |-> st, data |-> body]]
Raise(r, exc, st, data) ==
    [r EXCEPT !.pc = "done",
              !.outcome = [kind |-> "raise", exc |-> exc, status |-> st, data |-> data]]

\* asyncio.sleep(d)
Sleep(r, d) == [r EXCEPT !.pc = "sleeping", !.sleeps = Append(r.sleeps, d)]

\* Variant: the backoff does not grow with the attempt index.
BackoffConstant(tries) == 1
\* Backoff delay of the retry loop: 1 + tries * 2
Backoff(tries) == 1 + tries * 2

\* Top of one loop iteration: self._session.request(...) is issued with the
\* headers built before the loop.
Attempt(r, s, ss, cr) ==
    IF s = 0 THEN Raise(r, "AttributeError", 0, "none")
    ELSE IF ss[s] # "open" THEN Raise(r, "RuntimeError", 0, "none")
    ELSE [r EXCEPT !.pc = "exchange",
                   !.exchanges = r.exchanges + 1]

\* Code after the for loop (lines 207-210).
AfterLoop(r) ==
    IF r.response = 0 THEN Raise(r, "UnboundLocalError", 0, "none")
    ELSE IF ~IsDict(r.response_data) THEN Raise(r, "TypeError", r.response, "none")
    ELSE IF ~HasErrorKey(r.response_data) THEN Raise(r, "KeyError", r.response, "none")
    ELSE Raise(r, "HTTPError", r.response, GetError(r.response_data))

\* Variant: the loop runs one iteration too many.
NextIterationOffByOne(r, s, ss, cr) ==
    IF r.tries + 1 <= MaxTries
    THEN Attempt([r EXCEPT !.tries = r.tries + 1], s, ss, cr)
    ELSE AfterLoop(r)

\* Variant: after the last iteration the loop starts over.
NextIterationRestarts(r, s, ss, cr) ==
    IF r.tries + 1 < MaxTries
    THEN Attempt([r EXCEPT !.tries = r.tries + 1], s, ss, cr)
    ELSE Attempt([r EXCEPT !.tries = 0, !.exchanges = 0, !.hist = <<>>, !.sleeps = <<>>],
                 s, ss, cr)

\* `continue`, or falling off the end of the loop body.
NextIteration(r, s, ss, cr) ==
    IF r.tries + 1 < MaxTries
    THEN Attempt([r EXCEPT !.tries = r.tries + 1], s, ss, cr)
    ELSE AfterLoop(r)

\* Lines 160-165: build the headers from the credential, enter the loop.
EnterLoop(r, s, ss, cr) ==
    Attempt([r EXCEPT !.token = [cred |-> r.eff, gen |-> cr[r.eff].gen], !.tries = 0],
            s, ss, cr)

\* Lines 128-133 of _get_credentials, then the rest of request.
Resolve(r, cc, s, ss, cr) ==
    LET eff == EffectiveCredentials(r.credentials, cc)
        r1  == [r EXCEPT !.eff = eff]
    IN IF ShouldRefresh(cr, eff) THEN [r1 EXCEPT !.pc = "refreshing"]
       ELSE EnterLoop(r1, s, ss, cr)

\* Body of the loop once the response has arrived (lines 177-199).
HandleResponse(r, st, body, ra, s, ss, cr) ==
    LET r1 == [r EXCEPT !.response = st, !.response_data = body,
                        !.hist = Append(r.hist,
                                    [code |-> st, ra |-> IF st = 429 THEN ra ELSE 0])]
    IN IF IsSuccess(st) THEN Return(r1, st, body)
       ELSE IF IsTooLarge(st)
            THEN Raise(r1, "RequestEntityTooLarge", 413, "Request entity too large.")
       ELSE IF st = 429
            THEN IF ra = NoRetryAfter THEN Raise(r1, "KeyError", st, "none")
                 ELSE Sleep(r1, RateLimitDelay(ra))
       ELSE IF IsServerError(st) THEN Sleep(r1, Backoff(r1.tries))
       ELSE IF ~IsDict(body) THEN Raise(r1, "AttributeError", st, "none")
       ELSE IF Truthy(GetError(body))
            THEN IF st \in DOMAIN EXCEPTION_MAPPING
                 THEN Raise(r1, EXCEPTION_MAPPING[st], st, GetError(body))
                 ELSE Raise(r1, "KeyError", st, "none")
       ELSE NextIteration(r1, s, ss, cr)

\* except OSError as error (lines 201-205)
HandleOSError(r, errno) ==
    LET r1 == [r EXCEPT !.hist = Append(r.hist, [code |-> errno, ra |-> 0])]
    IN IF IsRecoverable(r1.tries, errno)
       THEN Sleep(r1, Backoff(r1.tries))
       ELSE Raise(r1, "OSError", errno, "none")

\* Smallest unused session id.
FreshSession(ss) == CHOOSE i \in 1..MaxSessions :
                        ss[i] = "unused" /\ \A j \in 1..MaxSessions : ss[j] = "unused" => i <= j
\* The credential object a call's from_client_secret returns.
FreshCred(c) == IF c = "c1" THEN "app1" ELSE "app2"

\* Variant: a failed credential operation is awaited again.
AuthFailureRetried(r, exc) == [r EXCEPT !.authfail = exc]
\* from_client_secret / refresh raises inside _get_credentials: nothing
\* catches it (lines 119-133, 158).
AuthFailure(r, exc) == Raise([r EXCEPT !.authfail = exc], exc, 0, "none")

\* self._client_credentials is an instance attribute: the other engine's is
\* not touched (lines 105, 122).
OtherAfterCreate(o, k) == o

Quiescent == closer = "idle" /\ \A c \in Calls : call[c].pc = "idle"

\* No second engine shares anything with this one.
NoOther == [session |-> 0, client_credentials |-> "none", shared |-> FALSE]

\* ------------------------------------------------- endpoint validation
\* Endpoint methods that test the length of a list argument, by the number
\* they compare it with.
Max5Methods == {"check_if_users_follow_playlists"}
Max20Methods == {"get_albums"}
Max100Methods == {"get_several_tracks_audio_features", "add_items_to_playlist",
                  "replace_playlist_items", "remove_items_from_playlist"}
Max50Methods == {"save_albums", "remove_albums", "check_saved_albums", "get_artists",
                 "get_shows", "save_shows", "remove_shows", "check_saved_shows",
                 "get_episodes", "save_episodes", "remove_episodes", "check_saved_episodes",
                 "get_tracks", "save_tracks", "remove_tracks", "check_saved_tracks",
                 "follow_users", "follow_artists", "unfollow_users", "unfollow_artists",
                 "check_followed_users", "check_followed_artists"}
ListMethods == Max5Methods \cup Max20Methods \cup Max50Methods \cup Max100Methods

ListMaximum(m) ==
    IF m \in Max5Methods THEN 5
    ELSE IF m \in Max20Methods THEN 20
    ELSE IF m \in Max100Methods THEN 100
    ELSE 50

\* Variant: one entry more than the maximum is let through.
TooManyLenient(m, n) == n > ListMaximum(m) + 1
\* if len(ids) > 20 (and the like): raise ValueError
TooMany(m, n) == n > ListMaximum(m)

\* Lengths of the list argument.
Lengths == {0, 1, 5, 6, 20, 21, 50, 51, 100, 101}

\* Endpoint methods with `if limit: utils.limit_value("limit", limit, 1, N)`.
Limit50Methods == {"get_album_tracks", "get_saved_albums", "get_new_releases",
                   "get_artist_albums", "get_show_episodes", "get_saved_shows",
                   "get_saved_episodes", "get_saved_tracks", "search",
                   "get_current_user_top_artists", "get_current_user_top_tracks",
                   "get_followed_artists", "get_current_user_playlists",
                   "get_user_playlists", "get_featured_playlists",
                   "get_category_playlists", "get_categories"}
Limit100Methods == {"get_recommendations", "get_playlist_items"}
LimitMethods == Limit50Methods \cup Limit100Methods
\* utils.limit_value("volume_percent", volume_percent, 0, 100), unguarded.
VolumeMethods == {"set_playback_volume"}
\* `limit` is forwarded without any range test.
UncheckedLimitMethods == {"get_recently_played_tracks"}
RangeMethods == LimitMethods \cup VolumeMethods \cup UncheckedLimitMethods

\* The range handed to utils.limit_value.
RangeMin(m) == IF m \in VolumeMethods THEN 0 ELSE 1
RangeMax(m) == IF m \in Limit50Methods THEN 50 ELSE 100

\* utils.limit_value(name, value, minimum, maximum) raises ValueError.
limit_value(v, lo, hi) == v < lo \/ v > hi

\* The numeric argument makes the method raise ValueError.
RangeRejects(m, v) ==
    IF m \in LimitMethods THEN v # 0 /\ limit_value(v, RangeMin(m), RangeMax(m))
    ELSE IF m \in VolumeMethods THEN limit_value(v, RangeMin(m), RangeMax(m))
    ELSE FALSE

\* The numeric argument is put into the request parameters:
\* `if limit: parameters["limit"] = limit`; volume_percent always.
Forwards(m, v) == IF m \in VolumeMethods THEN TRUE ELSE v # 0

\* Values of the numeric argument.
Values == {0 - 1, 0, 1, 50, 51, 100, 101}

\* Endpoint methods that refuse two arguments given together.
\* start_playback(context_uri, uris): a string and a list.
UriPairMethods == {"start_playback"}
\* get_recently_played_tracks(before, after): two integer timestamps.
CursorPairMethods == {"get_recently_played_tracks"}
\* create_playlist / change_playlist_details (collaborative, public): two booleans.
FlagPairMethods == {"create_playlist", "change_playlist_details"}
PairMethods == UriPairMethods \cup CursorPairMethods \cup FlagPairMethods

\* An optional argument as Python's truth test sees it: None; a value that
\* is given but falsy (0, "", [], False); a truthy value.
ArgKinds == {"none", "falsy", "truthy"}

\* if context_uri and uris / if before and after / if collaborative and public
BothTruthy(a, b) == a = "truthy" /\ b = "truthy"

\* get_recommendations: lengths of seed_artist_ids, seed_genres and
\* seed_track_ids (None counts as the empty list: `seed_artist_ids or []`).
SeedCounts == {0, 1, 3}
\* seeds = len([seed for seeds in [...] for seed in seeds])
TotalSeeds(a, g, t) == a + g + t

\* Variant: only too many seeds are refused.
SeedsRejectedOnlyTooMany(n) == n > 5
\* if seeds < 1 or seeds > 5: raise ValueError
SeedsRejected(n) == n < 1 \/ n > 5

\* values.VALID_SEED_KWARGS, the fixed allow-list of extra keyword names.
VALID_SEED_KWARGS == {"min_energy", "target_tempo"}
\* Names a caller passes as **kwargs.
KwargNames == {"min_energy", "bogus"}
\* if key not in values.VALID_SEED_KWARGS: raise ValueError, for any key.
KwargsRejected(kwargs) == \E key \in kwargs : key \notin VALID_SEED_KWARGS

\* Values of limit given to get_recommendations: None, in range, too large.
RecommendationLimits == {0, 50, 101}

\* seeds is <<>> and kwargs {} where the call modelled carries no seed lists.
NoEndpoint == [method |-> "none", arg |-> 0, forwarded |-> FALSE,
               first |-> "none", second |-> "none", seeds |-> <<>>, kwargs |-> {}]

\* ------------------------------------------------------------------ Route
\* A piece of a path or url: literal text, or the replacement field {text}.
Lit(t) == [ph |-> FALSE, text |-> t]
Field(name) == [ph |-> TRUE, text |-> name]

\* Route.BASE_URL
BASE_URL == "https://api.spotify.com/v1"

\* Path templates: without a field, with one (as every Route of http.py
\* that has any), and with two.
Paths ==
    { <<Lit("/albums")>>,
      <<Lit("/albums/"), Field("id")>>,
      <<Lit("/albums/"), Field("id"), Lit("/tracks")>>,
      <<Lit("/users/"), Field("user_id"), Lit("/playlists")>>,
      <<Lit("/users/"), Field("user_id"), Lit("/playlists/"), Field("id")>> }
Names == {"id", "user_id"}

\* Characters of string values: unreserved, space, reserved.
Chars == {"a", " ", "/", "?"}
Strings == UNION {[1..n -> Chars] : n \in 0..MaxValueLen}
FieldValues == {[str |-> TRUE, chars |-> x, n |-> 0] : x \in Strings}
              \cup {[str |-> FALSE, chars |-> <<>>, n |-> i] : i \in {0, 7}}
\* **parameters: keyword arguments, any subset of the names.
Parameters == UNION {[D -> FieldValues] : D \in SUBSET Names}

\* urllib.parse.quote(value) with its default safe="/", per character.
quote(ch) ==
    CASE ch = " " -> "%20"
      [] ch = "?" -> "%3F"
      [] OTHER    -> ch

\* One entry of the dict handed to format_map, as format renders it:
\* quote(value) for a str, str(value) for anything else.
Render(v) ==
    IF v.str THEN [i \in 1..Len(v.chars) |-> Lit(quote(v.chars[i]))]
    ELSE <<Lit(ToString(v.n))>>

\* str.format_map(mapping): KeyError on a field the mapping lacks.
RECURSIVE format_map(_, _)
format_map(pieces, mapping) ==
    IF pieces = <<>> THEN [exc |-> "none", url |-> <<>>]
    ELSE LET h    == Head(pieces)
             rest == format_map(Tail(pieces), mapping)
         IN IF h.ph /\ h.text \notin DOMAIN mapping THEN [exc |-> "KeyError", url |-> <<>>]
            ELSE IF rest.exc # "none" THEN rest
            ELSE [exc |-> "none",
                  url |-> (IF h.ph THEN Render(mapping[h.text]) ELSE <<h>>) \o rest.url]

\* Route.__init__: url = BASE_URL + path, formatted only `if parameters`.
RouteInit(path, parameters) ==
    LET url == <<Lit(BASE_URL)>> \o path
    IN IF DOMAIN parameters # {} THEN format_map(url, parameters)
       ELSE [exc |-> "none", url |-> url]

NoRoute == [stage |-> "none", path |-> <<>>, parameters |-> <<>>, exc |-> "none", url |-> <<>>]

\* A Route is about to be constructed from some path and keyword arguments.
InitRoute ==
    /\ \E path \in Paths, parameters \in Parameters :
          route = [stage |-> "args", path |-> path, parameters |-> parameters,
                   exc |-> "none", url |-> <<>>]
    /\ session = 0
    /\ sessions = [i \in 1..MaxSessions |-> "unused"]
    /\ client_credentials = "none"
    /\ creds = [k \in CredIds |-> [ttl |-> IF k = "user" THEN TokenLifetime ELSE 0, gen |-> 0]]
    /\ call = [c \in Calls |-> IdleCall]
    /\ closer = "idle"
    /\ closes = <<>>
    /\ other = NoOther
    /\ endpoint = NoEndpoint

\* ------------------------------------------------------------------ Init
Init ==
    /\ \E provided \in {"none", "open", "closed"} :
          /\ session = IF provided = "none" THEN 0 ELSE 1
          /\ sessions = [i \in 1..MaxSessions |->
                            IF i = 1 /\ provided # "none" THEN provided ELSE "unused"]
    /\ client_credentials = "none"
    /\ creds = [k \in CredIds |-> [ttl |-> IF k = "user" THEN TokenLifetime ELSE 0, gen |-> 0]]
    /\ call = [c \in Calls |-> IdleCall]
    /\ closer = "idle"
    /\ closes = <<>>
    /\ other = NoOther
    /\ endpoint = NoEndpoint
    /\ route = NoRoute

\* Two engines: this one, and a second one constructed with no session, with
\* a session of its own, or with the very session object this engine was
\* constructed with (self._session = session, line 103).
InitTwo ==
    /\ \E provided \in {"none", "open", "closed"}, theirs \in {"none", "same", "own"} :
          /\ theirs = "same" => provided # "none"
          /\ session = IF provided = "none" THEN 0 ELSE 1
          /\ sessions = [i \in 1..MaxSessions |->
                            IF i = 1 /\ provided # "none" THEN provided
                            ELSE IF i = MaxSessions /\ theirs = "own" THEN "open"
                            ELSE "unused"]
          /\ other = [session |-> IF theirs = "none" THEN 0
                                  ELSE IF theirs = "same" THEN 1 ELSE MaxSessions,
                      client_credentials |-> "none",
                      shared |-> theirs = "same"]
    /\ client_credentials = "none"
    /\ creds = [k \in CredIds |-> [ttl |-> IF k = "user" THEN TokenLifetime ELSE 0, gen |-> 0]]
    /\ call = [c \in Calls |-> IdleCall]
    /\ closer = "idle"
    /\ closes = <<>>
    /\ endpoint = NoEndpoint
    /\ route = NoRoute

\* ------------------------------------------------------------------ actions
\* HTTPClient.request up to its first suspension point:
\* _ensure_session_exists, then _get_credentials.
Start(c, credentials) ==
    /\ call[c].pc = "idle"
    /\ HasLiveSession(session, sessions)
          \/ \E i \in 1..MaxSessions : sessions[i] = "unused"
    /\ LET live == HasLiveSession(session, sessions)
           s    == IF live THEN session ELSE FreshSession(sessions)
           ss   == IF live THEN sessions ELSE [sessions EXCEPT ![s] = "open"]
           r    == [IdleCall EXCEPT !.credentials = credentials]
       IN /\ session' = s
          /\ sessions' = ss
          /\ call' = [call EXCEPT ![c] =
                        IF CreatesFallback(credentials, client_credentials)
                        THEN [r EXCEPT !.pc = "creating"]
                        ELSE Resolve(r, client_credentials, s, ss, creds)]
    /\ closes' = <<>>
    /\ UNCHANGED <<client_credentials, creds, closer, other>>

\* ClientCredentials.from_client_secret completes.
CreateDone(c, res) ==
    /\ call[c].pc = "creating"
    /\ IF res = "ok"
       THEN LET k  == FreshCred(c)
                cr == [creds EXCEPT ![k] = [ttl |-> TokenLifetime, gen |-> 0]]
            IN /\ client_credentials' = k
               /\ creds' = cr
               /\ other' = OtherAfterCreate(other, k)
               /\ call' = [call EXCEPT ![c] =
                            Resolve([call[c] EXCEPT !.created = 1], k, session, sessions, cr)]
       ELSE /\ call' = [call EXCEPT ![c] = AuthFailure(call[c], res)]
            /\ UNCHANGED <<client_credentials, creds, other>>
    /\ UNCHANGED <<session, sessions, closer, closes, endpoint, route>>

\* Credentials.refresh completes.
RefreshDone(c, res) ==
    /\ call[c].pc = "refreshing"
    /\ IF res = "ok"
       THEN /\ creds[call[c].eff].gen < MaxGen
            /\ LET k  == call[c].eff
                   cr == [creds EXCEPT ![k] = [ttl |-> TokenLifetime, gen |-> creds[k].gen + 1]]
               IN /\ creds' = cr
                  /\ call' = [call EXCEPT ![c] =
                        EnterLoop([call[c] EXCEPT !.refreshes = call[c].refreshes + 1],
                                  session, sessions, cr)]
       ELSE /\ call' = [call EXCEPT ![c] = AuthFailure(call[c], res)]
            /\ UNCHANGED creds
    /\ UNCHANGED <<session, sessions, client_credentials, closer, closes, other, endpoint, route>>

\* The HTTP exchange of the current attempt completes with a response.
Respond(c, st, body, ra) ==
    /\ call[c].pc = "exchange"
    /\ call' = [call EXCEPT ![c] = HandleResponse(call[c], st, body, ra, session, sessions, creds)]
    /\ UNCHANGED <<session, sessions, client_credentials, creds, closer, closes, other, endpoint, route>>

\* The HTTP exchange of the current attempt fails with an OSError.
TransportError(c, errno) ==
    /\ call[c].pc = "exchange"
    /\ call' = [call EXCEPT ![c] = HandleOSError(call[c], errno)]
    /\ UNCHANGED <<session, sessions, client_credentials, creds, closer, closes, other, endpoint, route>>

\* asyncio.sleep returns; the loop continues.
Wake(c) ==
    /\ call[c].pc = "sleeping"
    /\ LET d  == call[c].sleeps[Len(call[c].sleeps)]
           cr == Elapse(creds, d)
       IN /\ creds' = cr
          /\ call' = [call EXCEPT ![c] = NextIteration(call[c], session, sessions, cr)]
    /\ UNCHANGED <<session, sessions, client_credentials, closer, closes, other, endpoint, route>>

\* The caller receives the result or the exception of the call.
Finish(c) ==
    /\ call[c].pc = "done"
    /\ call' = [call EXCEPT ![c] = IdleCall]
    /\ UNCHANGED <<session, sessions, client_credentials, creds, closer, closes, other, endpoint, route>>

\* HTTPClient.close up to `await self._session.close()`.
CloseBegin ==
    /\ closer = "idle"
    /\ Len(closes) < MaxCloses
    /\ IF NothingToClose(session, sessions)
       THEN /\ closes' = Append(closes, "noop")
            /\ UNCHANGED <<sessions, closer>>
       ELSE IF session = 0
       THEN \* None has no attribute close
            /\ closes' = Append(closes, "raised")
            /\ UNCHANGED <<sessions, closer>>
       ELSE /\ sessions' = [sessions EXCEPT ![session] = "closed"]
            /\ closer' = "closing"
            /\ UNCHANGED closes
    /\ UNCHANGED <<session, client_credentials, creds, call, other, endpoint, route>>

\* Variant: close() also forgets the cached fallback credential.
CloseEndForgetsCredential ==
    /\ closer = "closing"
    /\ session' = 0
    /\ closer' = "idle"
    /\ closes' = Append(closes, "closed")
    /\ client_credentials' = "none"
    /\ UNCHANGED <<sessions, creds, call, other, endpoint, route>>

\* HTTPClient.close after the await: self._session = None.
CloseEnd ==
    /\ closer = "closing"
    /\ session' = 0
    /\ closer' = "idle"
    /\ closes' = Append(closes, "closed")
    /\ UNCHANGED <<sessions, client_credentials, creds, call, other, endpoint, route>>

\* Suspension points of HTTPClient.request: the awaits of lines 122, 131,
\* 169-177 and 190, 195, 203.
SuspensionPoints == {"creating", "refreshing", "exchange", "sleeping"}

\* Variant: unwinding a cancelled call closes the session it was using.
SessionsAfterCancelClosed(s, ss) == IF s = 0 THEN ss ELSE [ss EXCEPT ![s] = "closed"]
\* Unwinding a cancelled call leaves `async with self._session.request(...)`,
\* which releases the response only; no handler of request() touches the
\* session (lines 167-205).
SessionsAfterCancel(s, ss) == ss

\* The task awaiting call c is cancelled: CancelledError is raised at the
\* await the call is suspended on.  It is not an OSError, so the handler of
\* line 201 lets it pass and the call ends with it.
Cancel(c) ==
    /\ call[c].pc \in SuspensionPoints
    /\ call' = [call EXCEPT ![c] = Raise(call[c], "CancelledError", 0, "none")]
    /\ sessions' = SessionsAfterCancel(session, sessions)
    /\ UNCHANGED <<session, client_credentials, creds, closer, closes, other, endpoint, route>>

\* An endpoint method is called: it validates its argument, builds the
\* parameters and awaits self.request; a rejected argument raises ValueError
\* before self.request is reached.
EndpointCall(c, m, arg, credentials, rejected, fwd) ==
    /\ call[c].pc = "idle"
    /\ IF rejected
       THEN /\ call' = [call EXCEPT ![c] = Raise(IdleCall, "ValueError", 0, "none")]
            /\ endpoint' = [NoEndpoint EXCEPT !.method = m, !.arg = arg]
            /\ UNCHANGED <<session, sessions, client_credentials, creds, closer, closes, other>>
       ELSE /\ Start(c, credentials)
            /\ endpoint' = [NoEndpoint EXCEPT !.method = m, !.arg = arg, !.forwarded = fwd]

\* get_albums(ids) and the other methods with a length-tested list.
ListEndpoint(c, m, n, credentials) ==
    EndpointCall(c, m, n, credentials, TooMany(m, n), TRUE) /\ UNCHANGED route

\* get_album_tracks(limit), set_playback_volume(volume_percent) and the other
\* methods with a numeric argument.
RangeEndpoint(c, m, v, credentials) ==
    EndpointCall(c, m, v, credentials, RangeRejects(m, v), Forwards(m, v)) /\ UNCHANGED route

\* start_playback(context_uri, uris) and the other methods that refuse two
\* arguments given together: the test is the first statement, self.request
\* the last.
PairEndpoint(c, m, a, b, credentials) ==
    /\ call[c].pc = "idle"
    /\ endpoint' = [NoEndpoint EXCEPT !.method = m, !.first = a, !.second = b]
    /\ UNCHANGED route
    /\ IF BothTruthy(a, b)
       THEN /\ call' = [call EXCEPT ![c] = Raise(IdleCall, "ValueError", 0, "none")]
            /\ UNCHANGED <<session, sessions, client_credentials, creds, closer, closes, other>>
       ELSE Start(c, credentials)

\* get_recommendations(seed_artist_ids, seed_genres, seed_track_ids, limit,
\* **kwargs): the seed count is tested first, then each extra keyword name,
\* then the limit; self.request is the last statement.
RecommendationsEndpoint(c, a, g, t, kwargs, limit, credentials) ==
    LET m        == "get_recommendations"
        rejected == \/ SeedsRejected(TotalSeeds(a, g, t))
                    \/ KwargsRejected(kwargs)
                    \/ RangeRejects(m, limit)
    IN /\ call[c].pc = "idle"
       /\ endpoint' = [NoEndpoint EXCEPT !.method = m, !.arg = limit,
                                         !.forwarded = ~rejected /\ Forwards(m, limit),
                                         !.seeds = <<a, g, t>>, !.kwargs = kwargs]
       /\ UNCHANGED route
       /\ IF rejected
          THEN /\ call' = [call EXCEPT ![c] = Raise(IdleCall, "ValueError", 0, "none")]
               /\ UNCHANGED <<session, sessions, client_credentials, creds, closer, closes, other>>
          ELSE Start(c, credentials)

\* Route(method, path, **parameters) runs.
Construct ==
    /\ route.stage = "args"
    /\ LET r == RouteInit(route.path, route.parameters)
       IN route' = [route EXCEPT !.stage = "built", !.exc = r.exc, !.url = r.url]
    /\ UNCHANGED <<session, sessions, client_credentials, creds, call, closer, closes, other,
                   endpoint>>

\* One second passes outside of any sleep of the engine.
Tick ==
    /\ \E k \in CredIds : creds[k].ttl > 0
    /\ creds' = Elapse(creds, 1)
    /\ UNCHANGED <<session, sessions, client_credentials, call, closer, closes, other, endpoint, route>>

\* ------------------------------------------------------- specification
\* One engine used sequentially: a request or a close starts only when no
\* other operation is in progress.
SeqStart == \E k \in {"none", "user"} : Quiescent /\ Start("c1", k) /\ UNCHANGED <<endpoint, route>>
SeqClose == Quiescent /\ CloseBegin
DoCreate == \E c \in Calls, res \in AuthResults : CreateDone(c, res)
DoRefresh == \E c \in Calls, res \in AuthResults : RefreshDone(c, res)
DoRespond == \E c \in Calls, st \in Statuses, b \in Bodies, ra \in RetryAfters :
                Respond(c, st, b, ra)
DoTransportError == \E c \in Calls, e \in Errnos : TransportError(c, e)
DoWake == \E c \in Calls : Wake(c)
DoFinish == \E c \in Calls : Finish(c)

Next ==
    \/ SeqStart
    \/ SeqClose
    \/ CloseEnd
    \/ DoCreate
    \/ DoRefresh
    \/ DoRespond
    \/ DoTransportError
    \/ DoWake
    \/ DoFinish
    \/ Tick

Spec == Init /\ [][Next]_vars

\* The retry loop on its own: requests issued one after another on one
\* engine that is never closed, with no time passing outside of the
\* engine's own sleeps.
NextLoop ==
    \/ SeqStart
    \/ DoCreate
    \/ DoRefresh
    \/ DoRespond
    \/ DoTransportError
    \/ DoWake
    \/ DoFinish

SpecLoop == Init /\ [][NextLoop]_vars

\* The engine's lifecycle: requests and closes issued one after another, time
\* passing in between, with a reduced transport alphabet.
EngineStatuses == {200, 404, 429, 503}
EngineBodies == {"dict_error", "dict_no_error"}
EngineErrnos == {54, 104}
DoRespondEngine == \E c \in Calls, st \in EngineStatuses, b \in EngineBodies,
                      ra \in 1..MaxRetryAfter : Respond(c, st, b, ra)
DoTransportErrorEngine == \E c \in Calls, e \in EngineErrnos : TransportError(c, e)

NextEngine ==
    \/ SeqStart
    \/ SeqClose
    \/ CloseEnd
    \/ DoCreate
    \/ DoRefresh
    \/ DoRespondEngine
    \/ DoTransportErrorEngine
    \/ DoWake
    \/ DoFinish
    \/ Tick

SpecEngine == Init /\ [][NextEngine]_vars

\* The same engine when every await of request() completes: the credential
\* operation (lines 122, 131), the HTTP exchange (lines 169-177) and
\* asyncio.sleep (lines 190, 195, 203) each return or raise eventually.
SpecLive ==
    /\ Init
    /\ [][NextEngine]_vars
    /\ WF_vars(DoCreate)
    /\ WF_vars(DoRefresh)
    /\ WF_vars(DoRespondEngine \/ DoTransportErrorEngine)
    /\ WF_vars(DoWake)

\* One engine used by two concurrent callers, each issuing one request, any
\* of which may be cancelled.
CancelStatuses == {200, 429, 503}
ConcStart == \E c \in Calls, k \in {"none", "user"} : Start(c, k) /\ UNCHANGED <<endpoint, route>>
DoRespondCancel == \E c \in Calls, st \in CancelStatuses :
                      Respond(c, st, "dict_error", 1)
DoCancel == \E c \in Calls : Cancel(c)

NextCancel ==
    \/ ConcStart
    \/ DoCreate
    \/ DoRefresh
    \/ DoRespondCancel
    \/ DoWake
    \/ DoCancel

SpecCancel == Init /\ [][NextCancel]_vars

\* Two engines side by side; requests and closes are issued on this one.
TwoStatuses == {200, 503}
DoRespondTwo == \E c \in Calls, st \in TwoStatuses : Respond(c, st, "dict_error", NoRetryAfter)

NextTwo ==
    \/ SeqStart
    \/ SeqClose
    \/ CloseEnd
    \/ DoCreate
    \/ DoRefresh
    \/ DoRespondTwo
    \/ DoWake
    \/ DoFinish

SpecTwo == InitTwo /\ [][NextTwo]_vars

\* Endpoint methods called one after another on one engine whose transport
\* answers 200.
DoListEndpoint == \E m \in ListMethods, n \in Lengths, k \in {"none", "user"} :
                     Quiescent /\ ListEndpoint("c1", m, n, k)
DoRangeEndpoint == \E m \in RangeMethods, v \in Values, k \in {"none", "user"} :
                      Quiescent /\ RangeEndpoint("c1", m, v, k)
DoPairEndpoint == \E m \in PairMethods, a \in ArgKinds, b \in ArgKinds, k \in {"none", "user"} :
                     Quiescent /\ PairEndpoint("c1", m, a, b, k)
DoRecommendations == \E a \in SeedCounts, g \in SeedCounts, t \in SeedCounts,
                         kwargs \in SUBSET KwargNames, limit \in RecommendationLimits,
                         k \in {"none", "user"} :
                        Quiescent /\ RecommendationsEndpoint("c1", a, g, t, kwargs, limit, k)
DoRespondOk == \E c \in Calls : Respond(c, 200, "dict_no_error", NoRetryAfter)

NextEndpoint ==
    \/ DoListEndpoint
    \/ DoRangeEndpoint
    \/ DoPairEndpoint
    \/ DoCreate
    \/ DoRespondOk
    \/ DoFinish

SpecEndpoint == Init /\ [][NextEndpoint]_vars

\* get_recommendations called again and again on one engine whose transport
\* answers 200.
NextRecommendations ==
    \/ DoRecommendations
    \/ DoCreate
    \/ DoRespondOk
    \/ DoFinish

SpecRecommendations == Init /\ [][NextRecommendations]_vars

\* Construction of one Route.
SpecRoute == InitRoute /\ [][Construct]_vars

\* One caller issuing requests while another task closes the engine at any
\* moment: neither waits for the other.
StartAnyTime == \E k \in {"none", "user"} : Start("c1", k) /\ UNCHANGED <<endpoint, route>>
CloseAnyTime == CloseBegin

NextClosing ==
    \/ StartAnyTime
    \/ CloseAnyTime
    \/ CloseEnd
    \/ DoCreate
    \/ DoRefresh
    \/ DoRespondTwo
    \/ DoWake
    \/ DoFinish

SpecClosing == Init /\ [][NextClosing]_vars

TypeOK ==
    /\ session \in 0..MaxSessions
    /\ client_credentials \in {"none"} \cup AppCreds
    /\ closer \in {"idle", "closing"}
    /\ \A c \in Calls : call[c].tries \in 0..(MaxTries - 1)

\* ------------------------------------------------------------ properties
\* The response or transport error of call c's current attempt arrives in
\* this step.
Arrives(c) ==
    /\ call[c].pc = "exchange"
    /\ Len(call'[c].hist) = Len(call[c].hist) + 1

\* In this step call c ends without sleeping and without a new exchange.
EndsHere(c) ==
    /\ call'[c].pc = "done"
    /\ call'[c].sleeps = call[c].sleeps
    /\ call'[c].exchanges = call[c].exchanges

\* A call that has returned or raised does nothing more: it stays as it is
\* until its caller takes the result.
DoneIsFinal(c) == call[c].pc = "done" => call'[c] \in {call[c], IdleCall}

AllCodesIn(h, S) == \A i \in 1..Len(h) : h[i].code \in S

\* C1: a call of HTTPClient.request performs at most 3 HTTP exchanges,
\* whatever the transport answers.
C1_AtMostThreeExchanges ==
    \A c \in Calls : call[c].exchanges <= 3

C1_Witness ==
    \E c \in Calls : call[c].pc = "done" /\ call[c].exchanges = 3

\* C2: when an attempt receives a 2xx response, the call returns that
\* response's decoded body in the same step, with no sleep and no further
\* exchange, whatever attempts preceded it.
C2_SuccessReturnsAtOnce ==
    [][\A c \in Calls :
          /\ (Arrives(c) /\ Last(call'[c].hist).code \in 200..299) =>
                /\ EndsHere(c)
                /\ call'[c].outcome = [kind |-> "return", exc |-> "none",
                                       status |-> Last(call'[c].hist).code,
                                       data |-> call'[c].response_data]
          /\ DoneIsFinal(c)]_vars

C2_Witness ==
    \E c \in Calls :
        /\ call[c].pc = "done"
        /\ call[c].outcome.kind = "return"
        /\ call[c].outcome.status = 204
        /\ Len(call[c].hist) = 3
        /\ call[c].hist[1].code = 429
        /\ call[c].hist[2].code \in {54, 10054}

\* C3: when an attempt receives status 413, the call raises
\* RequestEntityTooLarge with the synthesized message in the same step, with
\* no sleep and no further exchange, whatever the response body is.
C3_TooLargeRaisesAtOnce ==
    [][\A c \in Calls :
          /\ (Arrives(c) /\ Last(call'[c].hist).code = 413) =>
                /\ EndsHere(c)
                /\ call'[c].outcome = [kind |-> "raise", exc |-> "RequestEntityTooLarge",
                                       status |-> 413,
                                       data |-> "Request entity too large."]
          /\ DoneIsFinal(c)]_vars

C3_Witness ==
    \E c \in Calls :
        /\ call[c].pc = "done"
        /\ call[c].outcome.exc = "RequestEntityTooLarge"
        /\ call[c].response = 413
        /\ call[c].response_data = "dict_error"
        /\ call[c].exchanges = 1

\* C4: when an attempt receives a status other than 2xx, 413, 429, 500, 502,
\* 503 with a decoded body that contains an `error` field, the call raises
\* the error kind mapped from that status, carrying that error payload, in
\* the same step, with no sleep and no further exchange.
C4_ErrorFieldRaisesMapped ==
    [][\A c \in Calls :
          (/\ Arrives(c)
           /\ Last(call'[c].hist).code \in (Statuses \ ((200..299) \cup {413, 429, 500, 502, 503}))
           /\ HasErrorKey(call'[c].response_data)) =>
                /\ EndsHere(c)
                /\ call'[c].outcome.kind = "raise"
                /\ call'[c].outcome.status = call'[c].response
                /\ call'[c].response \in DOMAIN EXCEPTION_MAPPING
                /\ call'[c].outcome.exc = EXCEPTION_MAPPING[call'[c].response]
                /\ call'[c].outcome.data = GetError(call'[c].response_data)]_vars

\* C5: after 503 on three consecutive attempts the call raises the generic
\* HTTP error after exactly 3 exchanges, having slept exactly twice, 1s and
\* 3s; the third failure raises without a further sleep.
C5_ThreeServerErrorsTwoSleeps ==
    \A c \in Calls :
        (/\ call[c].pc = "done"
         /\ Len(call[c].hist) = 3
         /\ AllCodesIn(call[c].hist, {503})) =>
            /\ call[c].exchanges = 3
            /\ call[c].sleeps = <<1, 3>>
            /\ call[c].outcome.kind = "raise"
            /\ call[c].outcome.exc = "HTTPError"

\* C6: when the first attempt receives 429 with Retry-After = d and the
\* second a 2xx response, the call sleeps exactly once, for d seconds,
\* between the two exchanges and returns the 2xx body.
C6_RateLimitThenSuccess ==
    \A c \in Calls :
        (/\ Len(call[c].hist) = 2
         /\ call[c].hist[1].code = 429
         /\ call[c].hist[1].ra # NoRetryAfter
         /\ call[c].hist[2].code \in 200..299) =>
            /\ call[c].pc = "done"
            /\ call[c].sleeps = <<call[c].hist[1].ra>>
            /\ call[c].exchanges = 2
            /\ call[c].outcome = [kind |-> "return", exc |-> "none",
                                  status |-> call[c].hist[2].code,
                                  data |-> call[c].response_data]

C6_Witness ==
    \E c \in Calls :
        /\ call[c].pc = "done"
        /\ Len(call[c].hist) = 2
        /\ call[c].hist[1] = [code |-> 429, ra |-> 2]
        /\ call[c].hist[2].code = 200
        /\ call[c].sleeps = <<2>>

\* C7: a 429 response does not consume one of the 3 bounded attempts: a call
\* that has received nothing but 429 responses (each with a Retry-After
\* header) is still retrying, so the rate-limited error never reaches the
\* caller.
C7_RateLimitNeverSurfaces ==
    \A c \in Calls :
        (/\ Len(call[c].hist) > 0
         /\ AllCodesIn(call[c].hist, {429})
         /\ \A i \in 1..Len(call[c].hist) : call[c].hist[i].ra # NoRetryAfter) =>
            call[c].pc \in {"sleeping", "exchange"}

\* C8: a recoverable transport error is retried after the backoff
\* 1 + 2*tries up to the 3-attempt bound; when every attempt fails with such
\* an error the call ends by re-raising that transport error unchanged.
C8_TransportErrorReraised ==
    \A c \in Calls :
        (/\ call[c].pc = "done"
         /\ Len(call[c].hist) > 0
         /\ AllCodesIn(call[c].hist, {54, 10054})) =>
            /\ call[c].outcome.kind = "raise"
            /\ call[c].outcome.exc = "OSError"
            /\ call[c].outcome.status = Last(call[c].hist).code

\* C9: a transport error whose errno is not recoverable is re-raised
\* unchanged in the step where it occurs, at any attempt index, with no
\* sleep and no further exchange.
C9_FatalTransportErrorReraised ==
    [][\A c \in Calls :
          /\ (Arrives(c) /\ Last(call'[c].hist).code \in (Errnos \ {54, 10054})) =>
                /\ EndsHere(c)
                /\ call'[c].outcome = [kind |-> "raise", exc |-> "OSError",
                                       status |-> Last(call'[c].hist).code,
                                       data |-> "none"]
          /\ DoneIsFinal(c)]_vars

C9_Witness ==
    \E c \in Calls :
        /\ call[c].pc = "done"
        /\ call[c].outcome.exc = "OSError"
        /\ call[c].outcome.status = 104
        /\ Len(call[c].hist) = 3
        /\ Len(call[c].sleeps) = 2

\* C10: at every HTTP exchange a call issues, the credential whose access
\* token is in the Authorization header is not expired.
C10_NeverSendsExpired ==
    [][\A c \in Calls :
          call'[c].exchanges = call[c].exchanges + 1 =>
              ~is_expired(creds', call'[c].token.cred)]_vars

\* Call c resolves its effective credential in this step (line 128).
Resolves(c) == call[c].eff = "none" /\ call'[c].eff # "none"

\* Call c of HTTPClient.request starts in this step.
StartsRequest(c) == call[c].pc = "idle" /\ call'[c].pc # "idle"

\* A call of HTTPClient.close returns or raises in this step.
CloseReturns == Len(closes') > Len(closes)

\* C11: a call refreshes its effective credential exactly once, before its
\* first exchange, if the credential reports expired at resolution, and never
\* if it reports valid; nothing is refreshed inside the retry loop.
C11_RefreshOnceIffExpired ==
    [][\A c \in Calls :
          /\ Resolves(c) =>
                IF is_expired(creds', call'[c].eff)
                THEN call'[c].pc = "refreshing" /\ call'[c].exchanges = 0
                ELSE call'[c].pc = "exchange" /\ call'[c].refreshes = 0
          /\ (call'[c].refreshes # call[c].refreshes /\ call'[c].pc # "idle") =>
                /\ call[c].pc = "refreshing"
                /\ call[c].exchanges = 0
                /\ call'[c].refreshes = 1
                /\ creds'[call[c].eff].gen = creds[call[c].eff].gen + 1
                /\ ~is_expired(creds', call[c].eff)
          /\ (call[c].pc = "refreshing" /\ call'[c].exchanges = 1) =>
                call'[c].refreshes = 1
          /\ (call[c].exchanges >= 1 /\ call'[c].pc # "idle") =>
                /\ call'[c].refreshes = call[c].refreshes
                /\ \A k \in CredIds : creds'[k].gen = creds[k].gen]_vars

C11_Witness ==
    \E c \in Calls :
        /\ call[c].pc = "exchange"
        /\ call[c].refreshes = 1
        /\ call[c].exchanges = 3

\* C12: over sequential calls the fallback credential is created exactly
\* once, by the first call whose creation succeeds; it is never replaced or
\* cleared afterwards and every later call without a caller credential uses
\* the cached one.
C12_FallbackCreatedOnce ==
    [][/\ \A c \in Calls :
            /\ (call'[c].created = 1 /\ call[c].created = 0) =>
                  client_credentials = "none" /\ client_credentials' # "none"
            /\ (StartsRequest(c) /\ client_credentials # "none") =>
                  call'[c].pc # "creating"
            /\ (Resolves(c) /\ call'[c].credentials = "none") =>
                  call'[c].eff = client_credentials'
       /\ client_credentials # "none" => client_credentials' = client_credentials]_vars

C12_Witness ==
    \E c \in Calls :
        /\ call[c].pc = "exchange"
        /\ call[c].credentials = "none"
        /\ call[c].created = 0
        /\ call[c].eff = client_credentials
        /\ \E i \in 1..MaxSessions : sessions[i] = "closed"

\* C13: when creating the fallback credential or refreshing the effective
\* credential fails, the call ends at once by raising that same failure, and
\* it has performed no HTTP exchange and no sleep.
C13_AuthFailurePropagates ==
    \A c \in Calls :
        call[c].authfail # "none" =>
            /\ call[c].pc = "done"
            /\ call[c].outcome = [kind |-> "raise", exc |-> call[c].authfail,
                                  status |-> 0, data |-> "none"]
            /\ call[c].exchanges = 0
            /\ call[c].hist = <<>>
            /\ call[c].sleeps = <<>>

C13_Witness ==
    \E c \in Calls :
        /\ call[c].pc = "done"
        /\ call[c].authfail = "ClientOSError"
        /\ call[c].eff # "none"
        /\ call[c].created = 1

\* C14: the token in the Authorization header is the access token of the
\* caller's credential when one is supplied and of the cached fallback
\* credential otherwise, and it is the same on all attempts of the call.
C14_TokenOfEffectiveCredential ==
    [][\A c \in Calls :
          /\ call'[c].exchanges >= 1 =>
                /\ call'[c].token.cred =
                      IF call'[c].credentials # "none" THEN call'[c].credentials
                      ELSE client_credentials'
                /\ call'[c].token.gen = creds'[call'[c].token.cred].gen
          /\ (call[c].exchanges >= 1 /\ call'[c].pc # "idle") =>
                call'[c].token = call[c].token]_vars

C14_Witness ==
    \E c \in Calls :
        /\ call[c].pc = "exchange"
        /\ call[c].exchanges = 3
        /\ call[c].credentials = "user"
        /\ client_credentials # "none"
        /\ call[c].token = [cred |-> "user", gen |-> 1]

\* What C15 says of requests: a request creates a session exactly when none
\* is live at its start, and every exchange runs on an open session.
C15_Requests ==
    \A c \in Calls :
        /\ StartsRequest(c) =>
              IF session # 0 /\ sessions[session] = "open"
              THEN session' = session /\ sessions' = sessions
              ELSE /\ session' # 0
                   /\ sessions[session'] = "unused"
                   /\ sessions' = [sessions EXCEPT ![session'] = "open"]
        /\ call'[c].exchanges = call[c].exchanges + 1 =>
              session' # 0 /\ sessions'[session'] = "open"

\* C15 as stated: requests create a session iff none is live and reuse a live
\* one, and after close() the session reference is absent.
C15_SessionAbsentAfterClose ==
    [][/\ C15_Requests
       /\ CloseReturns => session' = 0]_vars

\* C15 as amended: requests create a session iff none is live and reuse a
\* live one; after close() the engine holds no open session: the reference is
\* absent when close() found a live session, and otherwise it is absent or
\* still refers to the session that was already closed.
C15_NoLiveSessionAfterClose ==
    [][/\ C15_Requests
       /\ CloseReturns =>
             /\ session' = 0 \/ sessions'[session'] = "closed"
             /\ closer = "closing" => session' = 0]_vars

C15_Witness ==
    \E c \in Calls :
        /\ call[c].pc = "exchange"
        /\ session = 2
        /\ sessions[1] = "closed"
        /\ sessions[2] = "open"
        /\ client_credentials # "none"
        /\ call[c].created = 0

\* C16: close() never raises, and a close() that directly follows another
\* close() closes nothing and changes no engine state.
C16_CloseIdempotent ==
    [][/\ CloseReturns =>
             /\ Last(closes') # "raised"
             /\ Len(closes) >= 1 =>
                   /\ Last(closes') = "noop"
                   /\ UNCHANGED <<session, sessions, client_credentials, creds, call, closer>>
       /\ (closer = "idle" /\ closer' = "closing") => closes = <<>>]_vars

C16_Witness ==
    /\ closes = <<"closed", "noop">>
    /\ session = 0
    /\ client_credentials # "none"

\* Call c is cancelled in this step.
Cancelled(c) ==
    /\ call[c].pc \in SuspensionPoints
    /\ call'[c].pc = "done"
    /\ call'[c].outcome.exc = "CancelledError"

\* C17: cancelling an in-flight call at any suspension point leaves the
\* shared session open and referenced, leaves the cached fallback credential
\* and every credential object unchanged, and changes nothing of any other
\* call: the others go on from exactly the state they were in.  The cancelled
\* call performs no further exchange or sleep.
C17_CancelTouchesOnlyItsCall ==
    [][\A c \in Calls :
          /\ Cancelled(c) =>
                /\ session' = session
                /\ session # 0
                /\ sessions' = sessions
                /\ sessions'[session'] = "open"
                /\ client_credentials' = client_credentials
                /\ creds' = creds
                /\ \A d \in Calls \ {c} : call'[d] = call[d]
                /\ call'[c].exchanges = call[c].exchanges
                /\ call'[c].sleeps = call[c].sleeps
          /\ DoneIsFinal(c)]_vars

C17_Witness ==
    /\ call["c1"].pc = "done"
    /\ call["c1"].outcome.exc = "CancelledError"
    /\ call["c1"].exchanges = 2
    /\ Len(call["c1"].sleeps) = 2
    /\ call["c2"].pc = "done"
    /\ call["c2"].outcome.kind = "return"
    /\ call["c2"].exchanges = 3
    /\ call["c2"].eff = call["c1"].eff

\* C18: no request or close on this engine changes the other engine's
\* session reference, the open/closed status of the other engine's session,
\* or the other engine's cached fallback credential, however the two engines
\* were constructed.
C18_EnginesShareNothing ==
    [][/\ other' = other
       /\ other.session # 0 => sessions'[other.session] = sessions[other.session]]_vars

\* An endpoint method is called by caller c in this step.
EndpointInvoked(c) == call[c].pc = "idle" /\ call'[c].pc # "idle"

\* The call of c ended in this step with ValueError and the engine was not
\* entered: no session, no credential, no exchange.
RejectedBeforeRequest(c) ==
    /\ call'[c].pc = "done"
    /\ call'[c].outcome.kind = "raise"
    /\ call'[c].outcome.exc = "ValueError"
    /\ call'[c].exchanges = 0
    /\ call'[c].created = 0
    /\ call'[c].refreshes = 0
    /\ UNCHANGED <<session, sessions, client_credentials, creds>>

\* C19: a list-bounded endpoint method called with more entries than its
\* maximum (5, 20, 50 or 100) raises ValueError before HTTPClient.request is
\* entered: no exchange, no session created, no credential created or
\* refreshed; and a call that was so rejected never reaches the transport.
C19_TooLongListRejected ==
    [][\A c \in Calls :
          /\ (/\ EndpointInvoked(c)
              /\ endpoint'.method \in ListMethods
              /\ endpoint'.arg > (IF endpoint'.method = "check_if_users_follow_playlists" THEN 5
                                  ELSE IF endpoint'.method = "get_albums" THEN 20
                                  ELSE IF endpoint'.method \in Max100Methods THEN 100
                                  ELSE 50))
                => RejectedBeforeRequest(c)
          /\ DoneIsFinal(c)]_vars

C19_Witness ==
    /\ endpoint.method = "check_if_users_follow_playlists"
    /\ endpoint.arg = 6
    /\ call["c1"].pc = "done"
    /\ call["c1"].outcome.exc = "ValueError"
    /\ session = 0
    /\ client_credentials = "none"

\* C20: an endpoint method with a range-limited numeric parameter (limit in
\* 1..50 or 1..100, volume_percent in 0..100) raises ValueError before any
\* network call for every value outside the range, 0 and negative values
\* included, and forwards no out-of-range value.
C20_OutOfRangeRejected ==
    [][\A c \in Calls :
          (/\ EndpointInvoked(c)
           /\ endpoint'.method \in LimitMethods \cup VolumeMethods
           /\ \/ endpoint'.arg < RangeMin(endpoint'.method)
              \/ endpoint'.arg > RangeMax(endpoint'.method))
             => RejectedBeforeRequest(c)]_vars

\* An argument counts as given: a flag when it is True, any other argument
\* when it is not None.
Given(m, v) == IF m \in FlagPairMethods THEN v = "truthy" ELSE v # "none"

\* C21: start_playback with both context_uri and uris, get_recently_played_tracks
\* with both before and after, create_playlist / change_playlist_details with
\* both collaborative and public raise ValueError before any network call;
\* every call with at most one of the two given goes on to HTTPClient.request.
C21_ExclusivePairRejected ==
    [][\A c \in Calls :
          (EndpointInvoked(c) /\ endpoint'.method \in PairMethods) =>
              IF /\ Given(endpoint'.method, endpoint'.first)
                 /\ Given(endpoint'.method, endpoint'.second)
              THEN RejectedBeforeRequest(c)
              ELSE call'[c].outcome.exc # "ValueError" /\ session' # 0]_vars

\* The fields of a path.
FieldsOf(path) == {path[i].text : i \in {j \in 1..Len(path) : path[j].ph}}

\* C22: constructing a Route whose path has a field that the keyword
\* arguments lack, the empty set of arguments included, fails; it never
\* yields a url that still holds a replacement field.
C22_MissingFieldFails ==
    (route.stage = "built" /\ ~(FieldsOf(route.path) \subseteq DOMAIN route.parameters)) =>
        /\ route.exc = "KeyError"
        /\ \A i \in 1..Len(route.url) : ~route.url[i].ph

\* Percent-encoding of one character with space and reserved characters
\* escaped.
PercentEncoded(ch) ==
    CASE ch = " " -> "%20"
      [] ch = "/" -> "%2F"
      [] ch = "?" -> "%3F"
      [] OTHER    -> ch

\* Reference substitution: the path with every field replaced by the
\* percent-encoding of a string value, or the plain string form of another.
RECURSIVE Substituted(_, _)
Substituted(path, parameters) ==
    IF path = <<>> THEN <<>>
    ELSE LET h == Head(path)
             v == parameters[h.text]
         IN (IF ~h.ph THEN <<h>>
             ELSE IF v.str THEN [i \in 1..Len(v.chars) |-> Lit(PercentEncoded(v.chars[i]))]
             ELSE <<Lit(ToString(v.n))>>) \o Substituted(Tail(path), parameters)

\* C23: when the keyword arguments cover every field of the path, Route.url
\* is the base URL followed by the path with each string value replaced by
\* its percent-encoding (space and reserved characters escaped) and each
\* other value by its plain string form.
C23_UrlIsEncodedSubstitution ==
    (route.stage = "built" /\ FieldsOf(route.path) \subseteq DOMAIN route.parameters) =>
        /\ route.exc = "none"
        /\ route.url = <<Lit(BASE_URL)>> \o Substituted(route.path, route.parameters)

\* The ways a call may end according to the engine's contract: the body of
\* a 2xx response, or one of the classified errors.
ClassifiedErrors ==
    {"RequestEntityTooLarge", "HTTPError", "OSError"}
        \cup {EXCEPTION_MAPPING[st] : st \in DOMAIN EXCEPTION_MAPPING}

\* Call c has received at least one HTTP response.
ReceivedResponse(c) == \E i \in 1..Len(call[c].hist) : call[c].hist[i].code \in Statuses

\* C24: a call that received at least one HTTP response ends with the body
\* of a 2xx response, the payload-too-large error, a status-mapped API
\* error, the generic HTTP error or a re-raised transport error, and with
\* nothing else.
C24_OutcomeIsClassified ==
    \A c \in Calls :
        (call[c].pc = "done" /\ ReceivedResponse(c)) =>
            \/ /\ call[c].outcome.kind = "return"
               /\ call[c].outcome.status \in 200..299
            \/ /\ call[c].outcome.kind = "raise"
               /\ call[c].outcome.exc \in ClassifiedErrors

\* The retry loop of call c is exhausted in this step: its last attempt ends
\* without return or raise (after the wait of a 429, 5xx or retried
\* transport error, or by falling off the loop body) and the code after the
\* loop runs.
Exhausts(c) ==
    /\ call'[c].pc = "done"
    /\ Len(call'[c].hist) = MaxTries
    /\ \/ call[c].pc = "sleeping"
       \/ /\ Arrives(c)
          /\ Last(call'[c].hist).code \in
                 (Statuses \ ((200..299) \cup {413, 429, 500, 502, 503}))
          /\ call'[c].response_data \in {"dict_empty_error", "dict_no_error"}

\* C25: when the loop is exhausted and a response was received during the
\* call, the call raises the generic HTTP error built from the most recent
\* response and its error payload, whatever body that response carries.
C25_ExhaustedRaisesHTTPError ==
    [][\A c \in Calls :
          (Exhausts(c) /\ call'[c].response # 0) =>
              /\ call'[c].outcome.kind = "raise"
              /\ call'[c].outcome.exc = "HTTPError"
              /\ call'[c].outcome.status = call'[c].response
              /\ call'[c].outcome.data = GetError(call'[c].response_data)]_vars

\* C26: the retry loop is never exhausted by a call that received no
\* response at all.
C26_NoExhaustionWithoutResponse ==
    [][\A c \in Calls : Exhausts(c) => call'[c].response # 0]_vars

\* C27: every attempt of an exhausted loop ended in 429, 500/502/503 or a
\* retried transport error; a response with any other non-2xx status ends
\* the call on the attempt where it is received, with no further exchange,
\* whatever its body.
C27_OnlyRetryableExhausts ==
    [][\A c \in Calls :
          /\ Exhausts(c) => AllCodesIn(call'[c].hist, {429, 500, 502, 503, 54, 10054})
          /\ (/\ Arrives(c)
              /\ Last(call'[c].hist).code \in
                     (Statuses \ ((200..299) \cup {429, 500, 502, 503}))) =>
                 EndsHere(c)]_vars

\* C28: under every interleaving of concurrent calls the fallback credential
\* is created at most once.
C28_CreatedOnceConcurrently ==
    call["c1"].created + call["c2"].created <= 1

\* C29: rate-limit and backoff retries share one attempt counter: a call
\* makes at most 3 attempts whatever mix of 429, 5xx and transport errors it
\* meets, and the backoff after a 500/502/503 or a retried transport error
\* at zero-based attempt index i is 1 + 2*i seconds, earlier 429 attempts
\* counting towards i.
C29_SharedAttemptCounter ==
    [][\A c \in Calls :
          /\ Len(call'[c].hist) <= 3
          /\ Len(call'[c].sleeps) <= 3
          /\ (/\ Arrives(c)
              /\ Last(call'[c].hist).code \in {500, 502, 503, 54, 10054}) =>
                 /\ call'[c].pc = "sleeping"
                 /\ call'[c].sleeps = Append(call[c].sleeps, 1 + 2 * Len(call[c].hist))
                 /\ call'[c].exchanges = call[c].exchanges]_vars

C29_Witness ==
    \E c \in Calls :
        /\ call[c].pc = "sleeping"
        /\ Len(call[c].hist) = 2
        /\ call[c].hist[1].code = 429
        /\ call[c].hist[2].code = 503
        /\ call[c].sleeps = <<call[c].hist[1].ra, 3>>

\* Call c reaches `self._session.request(...)` in this step: the exchange
\* is issued, or dereferencing the session fails.
AttemptsExchange(c) ==
    \/ call'[c].exchanges = call[c].exchanges + 1
    \/ /\ call[c].pc # "done"
       /\ call'[c].pc = "done"
       /\ call'[c].outcome.status = 0
       /\ call'[c].outcome.exc \in {"AttributeError", "RuntimeError"}

\* C30: whenever a request reaches an exchange, on its first attempt or
\* after a wait, with close() running concurrently or not, the session
\* reference is present and the session open.
C30_ExchangeOnOpenSession ==
    [][\A c \in Calls :
          AttemptsExchange(c) => session' # 0 /\ sessions'[session'] = "open"]_vars

\* C31: with close() and requests interleaved in any way, every session that
\* is open is the engine's current session: close() never drops the
\* reference to an open session, so no open session is leaked.
C31_NoOpenSessionLeaked ==
    \A i \in 1..MaxSessions : sessions[i] = "open" => session = i

\* C32: creating the fallback credential does not depend on the caller's
\* credential: a request started while the engine has no fallback credential
\* goes on to create it whatever credential the caller supplied; when that
\* creation fails the call raises the failure with no exchange, also when
\* the caller's credential is usable; and a refresh awaited by a call that
\* supplied its own credential refreshes that credential and no other.
C32_CreationIgnoresCallerCredential ==
    [][\A c \in Calls :
          /\ (StartsRequest(c) /\ client_credentials = "none")
                => call'[c].pc = "creating"
          /\ (call[c].pc = "creating" /\ call'[c].authfail # "none")
                => /\ call'[c].pc = "done"
                   /\ call'[c].outcome.kind = "raise"
                   /\ call'[c].outcome.exc = call'[c].authfail
                   /\ call'[c].exchanges = 0
          /\ (call[c].pc = "refreshing" /\ call[c].credentials # "none")
                => /\ call[c].eff = call[c].credentials
                   /\ \A k \in AppCreds : creds'[k].gen = creds[k].gen]_vars

\* The fallback creation failed for a call whose own credential was valid.
C32_Witness ==
    \E c \in Calls :
        /\ call[c].pc = "done"
        /\ call[c].authfail # "none"
        /\ call[c].credentials = "user"
        /\ call[c].eff = "none"
        /\ call[c].created = 0
        /\ creds["user"].ttl > 0

\* C33: the cached fallback credential changes only in the step in which a
\* creation succeeds: close() leaves it as it is, a request started while it
\* exists does not create it again, every outcome of the retry loop leaves
\* it as it is, and a failed creation leaves it absent.
C33_FallbackChangesOnlyByCreation ==
    [][/\ client_credentials' # client_credentials
            => \E c \in Calls : /\ call[c].pc = "creating"
                                /\ call'[c].created = 1
                                /\ call'[c].authfail = "none"
       /\ (closer' # closer \/ closes' # closes)
            => client_credentials' = client_credentials
       /\ \A c \in Calls :
            /\ (StartsRequest(c) /\ client_credentials # "none")
                  => /\ call'[c].pc # "creating"
                     /\ client_credentials' = client_credentials
            /\ (call[c].pc = "creating" /\ call'[c].authfail # "none")
                  => client_credentials' = "none"]_vars

\* A request issued after close() got a new session and completed with the
\* fallback credential that an earlier request had created.
C33_Witness ==
    \E c \in Calls :
        /\ call[c].pc = "done"
        /\ call[c].outcome.kind = "return"
        /\ call[c].credentials = "none"
        /\ call[c].created = 0
        /\ client_credentials # "none"
        /\ call[c].eff = client_credentials
        /\ session = 2
        /\ sessions[1] = "closed"

\* C34: provided every credential operation, every HTTP exchange and every
\* sleep completes, a request() call that has started eventually returns or
\* raises: no sequence of 429, 5xx and transport-error outcomes keeps it
\* retrying forever.
C34_RequestTerminates ==
    \A c \in Calls : (call[c].pc \notin {"idle", "done"}) ~> (call[c].pc = "done")

\* A call has ended after a 429, a 5xx and a transport error, each retried.
C34_Witness ==
    \E c \in Calls :
        /\ call[c].pc = "done"
        /\ Len(call[c].hist) = MaxTries
        /\ call[c].hist[1].code = 429
        /\ call[c].hist[2].code = 503
        /\ call[c].hist[3].code \in EngineErrnos
        /\ Len(call[c].sleeps) = MaxTries

\* The seed lists and extra keyword names of the get_recommendations call
\* made in this step pass both tests of the method.
SeedsAndKwargsValid ==
    /\ endpoint'.seeds[1] + endpoint'.seeds[2] + endpoint'.seeds[3] \in 1..5
    /\ endpoint'.kwargs \subseteq VALID_SEED_KWARGS

\* C35: get_recommendations reaches HTTPClient.request only when the seeds
\* of its three seed lists number between 1 and 5 in total and every extra
\* keyword name is in the allow-list; otherwise it raises ValueError with no
\* HTTP exchange and without entering the engine. With seeds, names and
\* limit all valid it does reach HTTPClient.request.
C35_RecommendationsValidated ==
    [][\A c \in Calls :
          (/\ EndpointInvoked(c)
           /\ endpoint'.method = "get_recommendations"
           /\ endpoint'.seeds # <<>>) =>
              /\ call'[c].outcome.exc # "ValueError" => SeedsAndKwargsValid
              /\ ~SeedsAndKwargsValid => RejectedBeforeRequest(c)
              /\ (SeedsAndKwargsValid /\ endpoint'.arg \in 0..100)
                    => /\ call'[c].pc \in {"creating", "refreshing", "exchange"}
                       /\ session' # 0]_vars

\* Five seeds spread over the three lists with an allowed keyword reached
\* the transport; six seeds, no seed, or an unknown keyword did not.
C35_Witness ==
    \E c \in Calls :
        /\ endpoint.method = "get_recommendations"
        /\ endpoint.seeds = <<1, 1, 3>>
        /\ endpoint.kwargs = {"min_energy"}
        /\ call[c].pc = "done"
        /\ call[c].outcome.kind = "return"
        /\ call[c].exchanges = 1
====
